---- MODULE Spec2Model ----
(***************************************************************************)
(* rcc: a compiler for a tiny C-like language.                             *)
(*                                                                         *)
(* The components are modelled each with its own specification:            *)
(*   SpecParser      - Parser::parse_expression (src/src/parser.rs), the   *)
(*                     two-stack operator-precedence expression parser;    *)
(*   SpecAnalyzer    - Analyzer::analyze and its SymbolTable               *)
(*                     (src/src/analyzer.rs);                              *)
(*   SpecCodegen     - CodeGenerator::generate (src/src/codegen.rs);       *)
(*   SpecSymbolTable - the SymbolTable under arbitrary calls;              *)
(*   Spec            - main (src/src/main.rs): lex, Parser::parse,         *)
(*                     analyze, File::create, generate on one source.      *)
(* All share one set of variables; a specification leaves the variables    *)
(* of the other components at their idle values.                           *)
(***************************************************************************)
EXTENDS Integers, Sequences, FiniteSets, TLC

VARIABLES
    \* ---- Parser::parse_expression ----
    tokens,          \* the tokens of the slice consumed so far (token_stream)
    operand_stack,   \* Vec<Expression>
    operator_stack,  \* Vec<TokenKind>: operators and Separator(LParen) markers
    ppc,             \* position in parse_expression: idle, scan, drain, result, done
    presult,         \* Result<Option<Expression>>
    \* ---- the Program (parser.rs:14-17), as far as a pass has visited it ----
    program,
    \* ---- Analyzer::analyze ----
    stack,           \* SymbolTable.stack: Vec<HashMap<String, SymbolInfo>>
    apc,             \* position in analyze: idle, function, body, done
    expression_type, \* analyze_statement's expression_type (analyzer.rs:43)
    aresult,         \* Result<()> of analyze
    unvisited,       \* functions of the Program after the point where
                     \* analyze returned with an error
    last_call,       \* the latest call made on the SymbolTable
    \* ---- CodeGenerator::generate ----
    writer,          \* the lines written to the output writer so far
    gpc,             \* position in generate: idle, function, body, done, panicked
    gresult,         \* Result<()> of generate, or the panic
    \* ---- main and Parser::parse ----
    source,          \* the tokens of the source the TokenStream has yielded
    peeked,          \* the Peekable's buffer: None, or Some token peeked at
    functions,       \* parse's `functions`
    parsing,         \* parse_function's return_type, name and body so far
    mpc,             \* position in main and in parse
    mresult          \* how main ended, and in which stage

parserVars == <<tokens, operand_stack, operator_stack, ppc, presult>>
analyzerVars == <<stack, apc, expression_type, aresult, unvisited, last_call>>
codegenVars == <<writer, gpc, gresult>>
mainVars == <<source, peeked, functions, parsing, mpc, mresult>>
vars == <<tokens, operand_stack, operator_stack, ppc, presult,
          program,
          stack, apc, expression_type, aresult, unvisited, last_call,
          writer, gpc, gresult,
          source, peeked, functions, parsing, mpc, mresult>>

(***************************************************************************)
(* Bounds of the model.                                                    *)
(***************************************************************************)
\* Longest token sequence handed to parse_expression.
MaxTokens == 7

(***************************************************************************)
(* Tokens (src/src/lexer.rs).                                              *)
(***************************************************************************)
Tok(k, v) == [kind |-> k, val |-> v]

Operators == {"Plus", "Minus", "Star", "Slash"}

\* Identifier names the token stream draws from.
Identifiers == {"f"}

LParen == Tok("Separator", "LParen")
RParen == Tok("Separator", "RParen")
Semi == Tok("Separator", "Semi")

\* The parser never inspects the value of a literal, so the k-th literal of a
\* token sequence carries the value k (as in 1*2+3): values tell operands apart.
NumIntLits(ts) == Cardinality({i \in 1..Len(ts) : ts[i].kind = "IntLit"})
IntLitTokens(ts) == {Tok("IntLit", NumIntLits(ts) + 1)}
IdentifierTokens == {Tok("Identifier", s) : s \in Identifiers}
OperatorTokens == {Tok("Operator", o) : o \in Operators}

\* Every other token kind ends expression scanning (parser.rs:163).
OtherTokens ==
    {Semi, Tok("Separator", "LBrace"), Tok("Separator", "RBrace"),
     Tok("Keyword", "Return"), Tok("Type", "Int"), Tok("Type", "Void")}

\* What TokenStream::next / peek can yield after the tokens ts: a token, or
\* None at the end of the slice.
EOF == Tok("EOF", "EOF")
NextToken(ts) ==
    IntLitTokens(ts) \cup IdentifierTokens \cup OperatorTokens
        \cup {LParen, RParen} \cup OtherTokens \cup {EOF}

\* impl Precedence for Operator
precedenceFlat(op) == 1
precedence(op) == IF op \in {"Plus", "Minus"} THEN 1 ELSE 2

(***************************************************************************)
(* Expressions (parser.rs:31-36) and results.                              *)
(***************************************************************************)
IntLit(n) == [tag |-> "IntLit", n |-> n]
FunctionCall(name) == [tag |-> "FunctionCall", name |-> name]
Binary(l, op, r) == [tag |-> "Binary", left |-> l, op |-> op, right |-> r]

\* Option<T> is a sequence of length 0 (None) or 1 (Some).
None == <<>>
Some(x) == <<x>>

Ok(e) == [status |-> "Ok", expr |-> e, err |-> ""]
Err(msg) == [status |-> "Err", expr |-> None, err |-> msg]
NoResult == [status |-> "Pending", expr |-> None, err |-> ""]

MismatchedParentheses == "Invalid expression: Mismatched parentheses"
NotEnoughOperands == "Invalid expression: Not enough operands"
TooManyOperands == "Invalid expression: Too many operands"
ExpectedToken == "Expected token"

Push(s, x) == Append(s, x)
Top(s) == s[Len(s)]
Pop(s) == SubSeq(s, 1, Len(s) - 1)

IsOperator(t) == t.kind = "Operator"

(***************************************************************************)
(* Parser::apply_operator (parser.rs:178-189): pop right, then left, push  *)
(* the Binary node; an error when fewer than two operands are there.       *)
(***************************************************************************)
apply_operator(operands, op) ==
    IF Len(operands) >= 2
    THEN [ok |-> TRUE,
          operands |-> Push(Pop(Pop(operands)),
                            Binary(operands[Len(operands) - 1], op, Top(operands)))]
    ELSE [ok |-> FALSE, operands |-> <<>>]

(***************************************************************************)
(* while let Some(TokenKind::Operator(op)) = operator_stack.pop()          *)
(*     { self.apply_operator(&mut operand_stack, op)?; }                   *)
(* (parser.rs:137-139 and 168-170). The loop ends when the stack is        *)
(* exhausted or an entry that is not an operator (the LParen marker) has   *)
(* been popped; that entry is discarded.                                   *)
(***************************************************************************)
RECURSIVE PopWhileOperator(_, _)
PopWhileOperator(operands, operators) ==
    IF operators = <<>>
    THEN [ok |-> TRUE, operands |-> operands, operators |-> operators]
    ELSE IF ~IsOperator(Top(operators))
    THEN [ok |-> TRUE, operands |-> operands, operators |-> Pop(operators)]
    ELSE LET r == apply_operator(operands, Top(operators).val)
         IN  IF r.ok
             THEN PopWhileOperator(r.operands, Pop(operators))
             ELSE [ok |-> FALSE, operands |-> <<>>, operators |-> <<>>]

(***************************************************************************)
(* parser.rs:146-160: while the top of the operator stack is an operator   *)
(* of precedence >= op_precedence, pop it and apply it.                    *)
(***************************************************************************)
RECURSIVE PopByPrecedence(_, _, _)
PopByPrecedence(operands, operators, op_precedence) ==
    IF operators /= <<>> /\ IsOperator(Top(operators))
       /\ precedence(Top(operators).val) >= op_precedence
    THEN LET r == apply_operator(operands, Top(operators).val)
         IN  IF r.ok
             THEN PopByPrecedence(r.operands, Pop(operators), op_precedence)
             ELSE [ok |-> FALSE, operands |-> <<>>, operators |-> <<>>]
    ELSE [ok |-> TRUE, operands |-> operands, operators |-> operators]

\* parser.rs:171-175: the final match on operand_stack.len().
FinalResultLenient(operands) ==
    IF Len(operands) = 0 THEN Ok(None) ELSE Ok(Some(Top(operands)))
FinalResult(operands) ==
    IF Len(operands) = 0 THEN Ok(None)
    ELSE IF Len(operands) = 1 THEN Ok(Some(Top(operands)))
    ELSE Err(TooManyOperands)

(***************************************************************************)
(* Parser::parse_expression (parser.rs:105-176), one action per iteration  *)
(* of its loop. The slice is read strictly left to right, one token at a   *)
(* time, so the token of each iteration is drawn when it is peeked;        *)
(* `tokens` records the ones consumed.                                     *)
(***************************************************************************)
ParserFail(msg) ==
    /\ ppc' = "done"
    /\ presult' = Err(msg)
    /\ operand_stack' = <<>>
    /\ operator_stack' = <<>>

\* TokenKind::IntLit(n) (parser.rs:112-117)
ScanIntLit ==
    /\ ppc = "scan"
    /\ Len(tokens) < MaxTokens
    /\ \E t \in IntLitTokens(tokens) :
        /\ tokens' = Append(tokens, t)
        /\ operand_stack' = Push(operand_stack, IntLit(t.val))
    /\ UNCHANGED <<operator_stack, ppc, presult>>

\* TokenKind::Identifier(name) (parser.rs:118-125): the identifier, then
\* expect(LParen) and expect(RParen), each consuming the token it examines.
ScanIdentifier ==
    /\ ppc = "scan"
    /\ Len(tokens) + 3 <= MaxTokens
    /\ \E t \in IdentifierTokens, t2 \in NextToken(tokens), t3 \in NextToken(tokens) :
        IF t2 /= LParen
        THEN /\ tokens' = tokens \o (IF t2 = EOF THEN <<t>> ELSE <<t, t2>>)
             /\ ParserFail(ExpectedToken)
        ELSE IF t3 /= RParen
        THEN /\ tokens' = tokens \o (IF t3 = EOF THEN <<t, t2>> ELSE <<t, t2, t3>>)
             /\ ParserFail(ExpectedToken)
        ELSE /\ tokens' = tokens \o <<t, t2, t3>>
             /\ operand_stack' = Push(operand_stack, FunctionCall(t.val))
             /\ UNCHANGED <<operator_stack, ppc, presult>>

\* TokenKind::Separator(LParen) (parser.rs:126-130)
ScanLParen ==
    /\ ppc = "scan"
    /\ Len(tokens) < MaxTokens
    /\ tokens' = Append(tokens, LParen)
    /\ operator_stack' = Push(operator_stack, LParen)
    /\ UNCHANGED <<operand_stack, ppc, presult>>

\* TokenKind::Separator(RParen) (parser.rs:131-140)
ScanRParen ==
    /\ ppc = "scan"
    /\ Len(tokens) < MaxTokens
    /\ tokens' = Append(tokens, RParen)
    /\ IF operator_stack = <<>>
       THEN ParserFail(MismatchedParentheses)
       ELSE LET r == PopWhileOperator(operand_stack, operator_stack)
            IN  IF r.ok
                THEN /\ operand_stack' = r.operands
                     /\ operator_stack' = r.operators
                     /\ UNCHANGED <<ppc, presult>>
                ELSE ParserFail(NotEnoughOperands)

\* TokenKind::Operator(op) (parser.rs:141-162)
ScanOperator ==
    /\ ppc = "scan"
    /\ Len(tokens) < MaxTokens
    /\ \E t \in OperatorTokens :
        /\ tokens' = Append(tokens, t)
        /\ LET r == PopByPrecedence(operand_stack, operator_stack, precedence(t.val))
           IN  IF r.ok
               THEN /\ operand_stack' = r.operands
                    /\ operator_stack' = Push(r.operators, t)
                    /\ UNCHANGED <<ppc, presult>>
               ELSE ParserFail(NotEnoughOperands)

\* `_ => break` and `None => break` (parser.rs:163-165): the token is only
\* peeked, not consumed.
ScanBreak ==
    /\ ppc = "scan"
    /\ \E t \in OtherTokens \cup {EOF} : ppc' = "drain"
    /\ UNCHANGED <<tokens, operand_stack, operator_stack, presult>>

\* The loop after scanning (parser.rs:168-170).
DrainOperators ==
    /\ ppc = "drain"
    /\ LET r == PopWhileOperator(operand_stack, operator_stack)
       IN  IF r.ok
           THEN /\ operand_stack' = r.operands
                /\ operator_stack' = r.operators
                /\ ppc' = "result"
                /\ UNCHANGED presult
           ELSE ParserFail(NotEnoughOperands)
    /\ UNCHANGED tokens

\* The final match (parser.rs:171-175); the 1 arm pops the operand.
ReturnExpression ==
    /\ ppc = "result"
    /\ presult' = FinalResult(operand_stack)
    /\ operand_stack' = IF Len(operand_stack) = 1 THEN <<>> ELSE operand_stack
    /\ ppc' = "done"
    /\ UNCHANGED <<tokens, operator_stack>>

(***************************************************************************)
(* Results of the Analyzer (analyzer.rs), and the idle values of each      *)
(* component's variables.                                                  *)
(***************************************************************************)
\* Result<Type>: the anyhow! messages are told apart by kind.
\*   UndefinedSymbol    "Undefined function {a}"
\*   TypeMismatch       "Type mismatch: {a} and {b}"
\*   ReturnTypeMismatch "Expected {a}, found {b}"
TypeOk(t) == [status |-> "Ok", type |-> t, kind |-> "", a |-> "", b |-> ""]
TypeErr(kind, a, b) == [status |-> "Err", type |-> "", kind |-> kind, a |-> a, b |-> b]
NoType == [status |-> "Pending", type |-> "", kind |-> "", a |-> "", b |-> ""]

\* Result<()>
AnalyzeOk == [status |-> "Ok", kind |-> "", a |-> "", b |-> ""]
AnalyzeErr(kind, a, b) == [status |-> "Err", kind |-> kind, a |-> a, b |-> b]
AnalyzePending == [status |-> "Pending", kind |-> "", a |-> "", b |-> ""]

ParserIdle ==
    /\ tokens = <<>>
    /\ operand_stack = <<>>
    /\ operator_stack = <<>>
    /\ ppc = "idle"
    /\ presult = NoResult

\* A call on the SymbolTable: the method, its arguments, and what it
\* returned (None for the methods returning nothing).
NoInfo == [symbol_type |-> "", data_type |-> ""]
Call(op, name, info, result) ==
    [op |-> op, name |-> name, info |-> info, result |-> result]
NoCall == Call("", "", NoInfo, None)

\* How main ended: status is Pending, Ok, Err or Panic; stage names the
\* call that failed.
MainResult(status, stage) == [status |-> status, stage |-> stage]
NoFunction == [return_type |-> "", name |-> "", body |-> <<>>]

AnalyzerIdle ==
    /\ stack = <<>>
    /\ apc = "idle"
    /\ expression_type = NoType
    /\ aresult = AnalyzePending
    /\ unvisited = <<>>
    /\ last_call = NoCall

MainIdle ==
    /\ source = <<>>
    /\ peeked = None
    /\ functions = <<>>
    /\ parsing = NoFunction
    /\ mpc = "idle"
    /\ mresult = MainResult("Pending", "")

CodegenIdle ==
    /\ writer = <<>>
    /\ gpc = "idle"
    /\ gresult = "Pending"

\* Parser::new followed by the entry of parse_expression (parser.rs:106-108).
InitParser ==
    /\ tokens = <<>>
    /\ operand_stack = <<>>
    /\ operator_stack = <<>>
    /\ ppc = "scan"
    /\ presult = NoResult
    /\ program = <<>>
    /\ AnalyzerIdle
    /\ CodegenIdle
    /\ MainIdle

NextParser ==
    \/ ScanIntLit /\ UNCHANGED <<program, analyzerVars, codegenVars, mainVars>>
    \/ ScanIdentifier /\ UNCHANGED <<program, analyzerVars, codegenVars, mainVars>>
    \/ ScanLParen /\ UNCHANGED <<program, analyzerVars, codegenVars, mainVars>>
    \/ ScanRParen /\ UNCHANGED <<program, analyzerVars, codegenVars, mainVars>>
    \/ ScanOperator /\ UNCHANGED <<program, analyzerVars, codegenVars, mainVars>>
    \/ ScanBreak /\ UNCHANGED <<program, analyzerVars, codegenVars, mainVars>>
    \/ DrainOperators /\ UNCHANGED <<program, analyzerVars, codegenVars, mainVars>>
    \/ ReturnExpression /\ UNCHANGED <<program, analyzerVars, codegenVars, mainVars>>

SpecParser == InitParser /\ [][NextParser]_vars

(***************************************************************************)
(* The reference grammar of infix expressions over integer literals:       *)
(*     expr   ::= term   (("+" | "-") term)*                               *)
(*     term   ::= factor (("*" | "/") factor)*                             *)
(*     factor ::= IntLit | "(" expr ")"                                    *)
(* with both repetitions grouping to the left. Each Ref operator reads ts  *)
(* from index i and yields the tree and the index after it.                *)
(***************************************************************************)
RefFail == [ok |-> FALSE, tree |-> IntLit(0), pos |-> 0]
RefOk(t, i) == [ok |-> TRUE, tree |-> t, pos |-> i]
IsOpIn(ts, i, ops) == i <= Len(ts) /\ ts[i].kind = "Operator" /\ ts[i].val \in ops

RECURSIVE RefExpr(_, _)
RECURSIVE RefExprRest(_, _, _)
RECURSIVE RefTerm(_, _)
RECURSIVE RefTermRest(_, _, _)
RECURSIVE RefFactor(_, _)

RefFactor(ts, i) ==
    IF i > Len(ts) THEN RefFail
    ELSE IF ts[i].kind = "IntLit" THEN RefOk(IntLit(ts[i].val), i + 1)
    ELSE IF ts[i] = LParen
    THEN LET e == RefExpr(ts, i + 1)
         IN  IF e.ok /\ e.pos <= Len(ts) /\ ts[e.pos] = RParen
             THEN RefOk(e.tree, e.pos + 1)
             ELSE RefFail
    ELSE RefFail

RefTermRest(ts, i, left) ==
    IF IsOpIn(ts, i, {"Star", "Slash"})
    THEN LET f == RefFactor(ts, i + 1)
         IN  IF f.ok
             THEN RefTermRest(ts, f.pos, Binary(left, ts[i].val, f.tree))
             ELSE RefFail
    ELSE RefOk(left, i)

RefTerm(ts, i) ==
    LET f == RefFactor(ts, i)
    IN  IF f.ok THEN RefTermRest(ts, f.pos, f.tree) ELSE RefFail

RefExprRest(ts, i, left) ==
    IF IsOpIn(ts, i, {"Plus", "Minus"})
    THEN LET t == RefTerm(ts, i + 1)
         IN  IF t.ok
             THEN RefExprRest(ts, t.pos, Binary(left, ts[i].val, t.tree))
             ELSE RefFail
    ELSE RefOk(left, i)

RefExpr(ts, i) ==
    LET t == RefTerm(ts, i)
    IN  IF t.ok THEN RefExprRest(ts, t.pos, t.tree) ELSE RefFail

\* ts, whole, is one expression of the reference grammar.
WellFormed(ts) == RefExpr(ts, 1).ok /\ RefExpr(ts, 1).pos = Len(ts) + 1

\* Occurrences of token t among ts[i..j].
Count(ts, t, i, j) == Cardinality({k \in i..j : ts[k] = t})

\* ts[i] is a "(" that no later ")" closes.
UnclosedAt(ts, i) ==
    /\ ts[i] = LParen
    /\ \A j \in i..Len(ts) : Count(ts, LParen, i, j) > Count(ts, RParen, i, j)

\* ts[j] is a ")" that no earlier "(" opens.
UnopenedAt(ts, j) ==
    /\ ts[j] = RParen
    /\ \A i \in 1..j : Count(ts, RParen, i, j) > Count(ts, LParen, i, j)

\* C1: for every well-formed infix expression of integer literals, + - * /
\* and parentheses, parse_expression returns the tree of the reference
\* grammar: * and / bind tighter than + and -, equal precedence groups to
\* the left, parentheses override both.
C1_ParseMatchesGrammar ==
    (ppc = "done" /\ WellFormed(tokens))
        => presult = Ok(Some(RefExpr(tokens, 1).tree))

\* 1*(2+3) has been parsed, and has given 1*(2+3).
C1_Witness ==
    /\ ppc = "done"
    /\ tokens = <<Tok("IntLit", 1), Tok("Operator", "Star"), LParen,
                  Tok("IntLit", 2), Tok("Operator", "Plus"), Tok("IntLit", 3),
                  RParen>>
    /\ presult = Ok(Some(Binary(IntLit(1), "Star",
                                Binary(IntLit(2), "Plus", IntLit(3)))))

\* C2: parse_expression fails on every token sequence in which an opening
\* parenthesis is never closed; it never returns an expression or "no
\* expression" for such input.
C2_UnclosedParenFails ==
    (ppc = "done" /\ \E i \in 1..Len(tokens) : UnclosedAt(tokens, i))
        => presult.status = "Err"

\* C3: parse_expression fails for every ")" that has no matching earlier
\* "(", whether the operator stack is then empty or holds only binary
\* operators.
C3_UnopenedParenFails ==
    (ppc = "done" /\ \E j \in 1..Len(tokens) : UnopenedAt(tokens, j))
        => presult.status = "Err"

\* The number of operators the loops of parse_expression pop and apply in a
\* row from the top of the operator stack, given the least precedence popped.
RECURSIVE TopRun(_, _)
TopRun(operators, min_precedence) ==
    IF operators /= <<>> /\ IsOperator(Top(operators))
       /\ precedence(Top(operators).val) >= min_precedence
    THEN 1 + TopRun(Pop(operators), min_precedence)
    ELSE 0

\* k operators applied in a row need k + 1 operands.
Starved(operands, k) == k >= 1 /\ Len(operands) <= k

C4_Step ==
    \* an operator applied with fewer than two operands: by an operator token,
    /\ (/\ ppc = "scan"
        /\ Len(tokens') = Len(tokens) + 1
        /\ IsOperator(Top(tokens'))
        /\ Starved(operand_stack,
                   TopRun(operator_stack, precedence(Top(tokens').val))))
            => presult' = Err(NotEnoughOperands)
    \* by a ")",
    /\ (/\ ppc = "scan"
        /\ Len(tokens') = Len(tokens) + 1
        /\ Top(tokens') = RParen
        /\ Starved(operand_stack, TopRun(operator_stack, 0)))
            => presult' = Err(NotEnoughOperands)
    \* or at the end of scanning;
    /\ (ppc = "drain" /\ Starved(operand_stack, TopRun(operator_stack, 0)))
            => presult' = Err(NotEnoughOperands)
    \* more than one operand left after all operators are applied;
    /\ (ppc = "result" /\ Len(operand_stack) > 1)
            => presult' = Err(TooManyOperands)
    \* an expression is returned only when exactly one operand remains.
    /\ (presult.status = "Pending" /\ presult'.status = "Ok"
        /\ presult'.expr /= None)
            => /\ ppc = "result"
               /\ Len(operand_stack) = 1
               /\ presult'.expr = Some(operand_stack[1])

Types == {"Int", "Void"}
FunctionNames == {"f", "g"}

Function(ty, name, body) == [return_type |-> ty, name |-> name, body |-> body]
Return(expression) == [tag |-> "Return", expr |-> expression]

\* Largest Program handed to the Analyzer, counted in functions + statements
\* + expression nodes.
MaxProgramSize == 8

RECURSIVE ExprSize(_)
ExprSize(e) ==
    IF e.tag = "Binary" THEN 1 + ExprSize(e.left) + ExprSize(e.right) ELSE 1

RECURSIVE SumSeq(_)
SumSeq(s) == IF s = <<>> THEN 0 ELSE s[1] + SumSeq(Tail(s))

StatementSize(st) == 1 + (IF st.expr = None THEN 0 ELSE ExprSize(st.expr[1]))
FunctionSize(fn) == 1 + SumSeq([k \in 1..Len(fn.body) |-> StatementSize(fn.body[k])])
ProgramSize(prog) == SumSeq([i \in 1..Len(prog) |-> FunctionSize(prog[i])])

\* The expressions of exactly n nodes over the given literals, callee names
\* and operators.
RECURSIVE ExprsOfSize(_, _, _, _)
ExprsOfSize(n, lits, names, ops) ==
    IF n < 1 THEN {}
    ELSE IF n = 1
    THEN {IntLit(v) : v \in lits} \cup {FunctionCall(c) : c \in names}
    ELSE UNION {
            {Binary(l, op, r) :
                l \in ExprsOfSize(a, lits, names, ops),
                op \in ops,
                r \in ExprsOfSize(n - 1 - a, lits, names, ops)}
            : a \in 1..(n - 2)}

\* The statements of at most n nodes: `return;` and `return <expr>;`.
Statements(n, lits, names, ops) ==
    IF n < 1 THEN {}
    ELSE {Return(None)} \cup
         UNION {{Return(Some(e)) : e \in ExprsOfSize(k, lits, names, ops)}
                : k \in 1..(n - 1)}

CurrentFunction == program[Len(program)]
LastStatement == CurrentFunction.body[Len(CurrentFunction.body)]
HasStatement == program /= <<>> /\ CurrentFunction.body /= <<>>

\* The last statement has just been analyzed: the loop of analyze_function
\* is at its next iteration, or has been left through `?`. The symbol table
\* is then the one the statement was analyzed with.
JustAnalyzed ==
    /\ HasStatement
    /\ \/ apc = "body"
       \/ apc = "done" /\ aresult.status = "Err"

\* The Program with one more statement in the body of its last function.
WithStatement(prog, st) ==
    [prog EXCEPT ![Len(prog)].body = Append(@, st)]

(***************************************************************************)
(* SymbolTable (analyzer.rs:76-122). A scope is a function from the names  *)
(* it holds to their SymbolInfo.                                           *)
(***************************************************************************)
SymbolInfo(symbol_type, data_type) ==
    [symbol_type |-> symbol_type, data_type |-> data_type]

EmptyScope == [n \in {} |-> SymbolInfo("Function", "Int")]

\* HashMap::insert: a later entry replaces an earlier one of the same name.
ScopeInsert(scope, name, info) ==
    [n \in DOMAIN scope \cup {name} |-> IF n = name THEN info ELSE scope[n]]

\* SymbolTable::new
NewSymbolTable == <<EmptyScope>>

\* SymbolTable::enter_scope
enter_scope(st) == Append(st, EmptyScope)

\* exit_scope popping two scopes.
exit_scope_twice(st) == IF Len(st) <= 2 THEN <<>> ELSE Pop(Pop(st))

\* SymbolTable::exit_scope: Vec::pop, which leaves an empty Vec empty.
exit_scope(st) == IF st = <<>> THEN st ELSE Pop(st)

\* insert writing into the first scope instead of the last.
insertOutermost(st, name, info) ==
    IF st = <<>> THEN st
    ELSE [st EXCEPT ![1] = ScopeInsert(@, name, info)]

\* SymbolTable::insert: into the last scope, if there is one.
insert(st, name, info) ==
    IF st = <<>> THEN st
    ELSE [st EXCEPT ![Len(st)] = ScopeInsert(@, name, info)]

\* SymbolTable::get: the scopes from the innermost outwards.
getInnermostOnly(st, name) ==
    IF st /= <<>> /\ name \in DOMAIN Top(st) THEN Some(Top(st)[name]) ELSE None
RECURSIVE get(_, _)
get(st, name) ==
    IF st = <<>> THEN None
    ELSE IF name \in DOMAIN Top(st) THEN Some(Top(st)[name])
    ELSE get(Pop(st), name)

(***************************************************************************)
(* Analyzer (analyzer.rs:10-74).                                           *)
(***************************************************************************)
\* analyzer.rs:63-68: `?` on the left type, then on the right type, then the
\* comparison.
binary_type_unchecked(left_type, right_type) ==
    IF left_type.status = "Err" THEN left_type
    ELSE IF right_type.status = "Err" THEN right_type
    ELSE left_type
binary_type(left_type, right_type) ==
    IF left_type.status = "Err" THEN left_type
    ELSE IF right_type.status = "Err" THEN right_type
    ELSE IF left_type.type /= right_type.type
    THEN TypeErr("TypeMismatch", left_type.type, right_type.type)
    ELSE left_type

\* Analyzer::analyze_expression (analyzer.rs:53-73)
\* analyze_expression giving a call of an unknown name the type Int.
RECURSIVE analyze_expression_implicit_int(_, _)
analyze_expression_implicit_int(st, expression) ==
    IF expression = None THEN TypeOk("Void")
    ELSE LET e == expression[1]
         IN  IF e.tag = "IntLit" THEN TypeOk("Int")
             ELSE IF e.tag = "FunctionCall"
             THEN LET symbol_info == get(st, e.name)
                  IN  IF symbol_info /= None
                      THEN TypeOk(symbol_info[1].data_type)
                      ELSE TypeOk("Int")
             ELSE binary_type(analyze_expression_implicit_int(st, Some(e.left)),
                              analyze_expression_implicit_int(st, Some(e.right)))

\* Analyzer::analyze_expression (analyzer.rs:53-73)
RECURSIVE analyze_expression(_, _)
analyze_expression(st, expression) ==
    IF expression = None THEN TypeOk("Void")
    ELSE LET e == expression[1]
         IN  IF e.tag = "IntLit" THEN TypeOk("Int")
             ELSE IF e.tag = "FunctionCall"
             THEN LET symbol_info == get(st, e.name)
                  IN  IF symbol_info /= None
                      THEN TypeOk(symbol_info[1].data_type)
                      ELSE TypeErr("UndefinedSymbol", e.name, "")
             ELSE binary_type(analyze_expression(st, Some(e.left)),
                              analyze_expression(st, Some(e.right)))

\* Analyzer::analyze_statement (analyzer.rs:40-50): the type the expression
\* was given and the Result<()> of the statement.
analyze_statement_unchecked(st, statement, return_type) ==
    LET t == analyze_expression(st, statement.expr)
    IN  [expression_type |-> t,
         result |-> IF t.status = "Err" THEN AnalyzeErr(t.kind, t.a, t.b)
                    ELSE AnalyzeOk]
analyze_statement(st, statement, return_type) ==
    LET t == analyze_expression(st, statement.expr)
    IN  [expression_type |-> t,
         result |-> IF t.status = "Err" THEN AnalyzeErr(t.kind, t.a, t.b)
                    ELSE IF t.type /= return_type
                    THEN AnalyzeErr("ReturnTypeMismatch", return_type, t.type)
                    ELSE AnalyzeOk]

\* Analyzer::analyze_function up to its loop (analyzer.rs:27-32): the
\* function's own symbol goes into the current scope, then the body's scope
\* is entered.
function_entry_no_insert(st, function) == enter_scope(st)
function_entry(st, function) ==
    enter_scope(insert(st, function.name,
                       SymbolInfo("Function", function.return_type)))

\* What the Analyzer's Programs are built from. The Analyzer ignores the
\* operator of a Binary (`op: _`) and the value of a literal.
AnalyzerLiterals == {1}
AnalyzerOperators == {"Plus", "Star"}
AnalyzerStatements(n) ==
    Statements(n, AnalyzerLiterals, FunctionNames, AnalyzerOperators)

\* analyze's loop reaches the next function (analyzer.rs:20-21, 27-32).
AnalyzeFunction ==
    /\ apc = "function"
    /\ ProgramSize(program) < MaxProgramSize
    /\ \E ty \in Types, name \in FunctionNames :
        LET function == Function(ty, name, <<>>)
        IN  /\ program' = Append(program, function)
            /\ stack' = function_entry(stack, function)
    /\ apc' = "body"
    /\ UNCHANGED <<expression_type, aresult>>

\* One iteration of analyze_function's loop (analyzer.rs:33-35); an error
\* leaves analyze_function and analyze at once through `?`.
AnalyzeStatement ==
    /\ apc = "body"
    /\ \E statement \in AnalyzerStatements(MaxProgramSize - ProgramSize(program)) :
        LET r == analyze_statement(stack, statement, CurrentFunction.return_type)
        IN  /\ program' = WithStatement(program, statement)
            /\ expression_type' = r.expression_type
            /\ IF r.result.status = "Ok"
               THEN UNCHANGED <<apc, aresult>>
               ELSE /\ apc' = "done"
                    /\ aresult' = r.result
    /\ UNCHANGED stack

\* The body is exhausted (analyzer.rs:36-37).
ExitFunction ==
    /\ apc = "body"
    /\ stack' = exit_scope(stack)
    /\ apc' = "function"
    /\ UNCHANGED <<program, expression_type, aresult>>

\* The functions are exhausted (analyzer.rs:23).
AnalyzeReturn ==
    /\ apc = "function"
    /\ aresult' = AnalyzeOk
    /\ apc' = "done"
    /\ UNCHANGED <<program, stack, expression_type>>

\* analyze has returned an error through `?` (analyzer.rs:21, 34): the
\* loop over program.functions never reaches the functions after the
\* failing one. The next of them is drawn here; the Analyzer has not read
\* it, so only its header is kept.
RemainingFunction ==
    /\ apc = "done"
    /\ aresult.status = "Err"
    /\ unvisited = <<>>
    /\ ProgramSize(program) < MaxProgramSize
    /\ \E ty \in Types, name \in FunctionNames :
        unvisited' = <<Function(ty, name, <<>>)>>
    /\ UNCHANGED <<program, stack, apc, expression_type, aresult>>

\* Analyzer::new (analyzer.rs:15-17) and the entry of analyze.
InitAnalyzer ==
    /\ program = <<>>
    /\ stack = NewSymbolTable
    /\ apc = "function"
    /\ expression_type = NoType
    /\ aresult = AnalyzePending
    /\ unvisited = <<>>
    /\ last_call = NoCall
    /\ ParserIdle
    /\ CodegenIdle
    /\ MainIdle

NextAnalyzer ==
    \/ AnalyzeFunction
         /\ UNCHANGED <<unvisited, last_call, parserVars, codegenVars, mainVars>>
    \/ AnalyzeStatement
         /\ UNCHANGED <<unvisited, last_call, parserVars, codegenVars, mainVars>>
    \/ ExitFunction
         /\ UNCHANGED <<unvisited, last_call, parserVars, codegenVars, mainVars>>
    \/ AnalyzeReturn
         /\ UNCHANGED <<unvisited, last_call, parserVars, codegenVars, mainVars>>
    \/ RemainingFunction
         /\ UNCHANGED <<last_call, parserVars, codegenVars, mainVars>>

SpecAnalyzer == InitAnalyzer /\ [][NextAnalyzer]_vars

(***************************************************************************)
(* The static type of an expression, read off the Program alone: inside    *)
(* function number i, a call of c has the declared return type of the last *)
(* function named c among functions 1..i; "Error" when there is none or    *)
(* when the operands of a Binary disagree.                                 *)
(***************************************************************************)
Declared(prog, i, c) == {j \in 1..i : prog[j].name = c}
Latest(S) == CHOOSE j \in S : \A k \in S : k <= j

RECURSIVE StaticType(_, _, _)
StaticType(prog, i, expression) ==
    IF expression = None THEN "Void"
    ELSE LET e == expression[1]
         IN  IF e.tag = "IntLit" THEN "Int"
             ELSE IF e.tag = "FunctionCall"
             THEN IF Declared(prog, i, e.name) = {} THEN "Error"
                  ELSE prog[Latest(Declared(prog, i, e.name))].return_type
             ELSE LET l == StaticType(prog, i, Some(e.left))
                      r == StaticType(prog, i, Some(e.right))
                  IN  IF l = "Error" \/ r = "Error" \/ l /= r THEN "Error" ELSE l

\* Every return statement visited so far has the declared type of its function.
ReturnsMatch(prog) ==
    \A i \in 1..Len(prog) : \A k \in 1..Len(prog[i].body) :
        StaticType(prog, i, prog[i].body[k].expr) = prog[i].return_type

\* The names called anywhere in an expression.
RECURSIVE Callees(_)
Callees(e) ==
    IF e.tag = "FunctionCall" THEN {e.name}
    ELSE IF e.tag = "Binary" THEN Callees(e.left) \cup Callees(e.right)
    ELSE {}

\* C5: analyze succeeds only if every return statement of every function
\* returns an expression whose static type (Void when absent, Int for a
\* literal) is the function's declared return type, and any mismatch makes
\* analyze fail with ReturnTypeMismatch.
C5_ReturnTypesChecked ==
    /\ (apc \in {"function", "body"}) => ReturnsMatch(program)
    /\ (apc = "done") => (aresult.status = "Ok" <=> ReturnsMatch(program))
    /\ (apc = "done" /\ HasStatement
        /\ StaticType(program, Len(program), LastStatement.expr)
                \notin {"Error", CurrentFunction.return_type})
            => aresult = AnalyzeErr("ReturnTypeMismatch",
                    CurrentFunction.return_type,
                    StaticType(program, Len(program), LastStatement.expr))

\* `int f(){ return 1; } void g(){ return; }` has been accepted.
C5_Witness ==
    /\ apc = "done"
    /\ aresult = AnalyzeOk
    /\ program = <<Function("Int", "f", <<Return(Some(IntLit(1)))>>),
                   Function("Void", "g", <<Return(None)>>)>>

\* The scopes of the symbol table that hold name.
ScopesWith(st, name) == {i \in 1..Len(st) : name \in DOMAIN st[i]}

\* C6: the static type of a zero-argument call is the data type stored for
\* the looked-up symbol; analysis fails with UndefinedSymbol whenever no
\* scope of the symbol table holds the name; a call to a name declared
\* nowhere in the program always fails.
C6_CallLookup ==
    /\ (JustAnalyzed
        /\ LastStatement.expr /= None
        /\ LastStatement.expr[1].tag = "FunctionCall")
            => LET name == LastStatement.expr[1].name
                   S == ScopesWith(stack, name)
               IN  IF S = {}
                   THEN /\ expression_type = TypeErr("UndefinedSymbol", name, "")
                        /\ apc = "done"
                        /\ aresult = AnalyzeErr("UndefinedSymbol", name, "")
                   ELSE expression_type = TypeOk(stack[Latest(S)][name].data_type)
    /\ (HasStatement /\ LastStatement.expr /= None
        /\ \E c \in Callees(LastStatement.expr[1]) :
                \A i \in 1..Len(program) : program[i].name /= c)
            => apc = "done" /\ aresult.status = "Err"

\* `int f(){ return g(); }` has been rejected: g is undefined.
C6_Witness ==
    /\ apc = "done"
    /\ program = <<Function("Int", "f", <<Return(Some(FunctionCall("g")))>>)>>
    /\ aresult = AnalyzeErr("UndefinedSymbol", "g", "")

\* C7: the function's own symbol is inserted before any statement of its
\* body is analyzed, so a call to the function's own name inside its body
\* always resolves and has the function's declared return type.
C7_SelfVisible ==
    /\ (apc = "body")
            => /\ ScopesWith(stack, CurrentFunction.name) /= {}
               /\ analyze_expression(stack, Some(FunctionCall(CurrentFunction.name)))
                    = TypeOk(CurrentFunction.return_type)
    /\ (JustAnalyzed
        /\ LastStatement = Return(Some(FunctionCall(CurrentFunction.name))))
            => /\ expression_type = TypeOk(CurrentFunction.return_type)
               /\ apc = "body"
    /\ (apc = "done" /\ aresult.kind = "UndefinedSymbol")
            => aresult.a /= CurrentFunction.name

\* `void g(){ return g(); }`: the self-call has been typed Void.
C7_Witness ==
    /\ apc = "body"
    /\ program = <<Function("Void", "g", <<Return(Some(FunctionCall("g")))>>)>>
    /\ expression_type = TypeOk("Void")

\* C8: a binary expression types its left operand, then its right one; an
\* error of an operand is returned as it is (the left one first), differing
\* operand types give TypeMismatch, and otherwise the common operand type
\* is the type of the whole expression.
C8_BinaryType ==
    (JustAnalyzed
     /\ LastStatement.expr /= None
     /\ LastStatement.expr[1].tag = "Binary")
        => LET e == LastStatement.expr[1]
               l == analyze_expression(stack, Some(e.left))
               r == analyze_expression(stack, Some(e.right))
           IN  /\ l.status = "Err" => expression_type = l
               /\ (l.status = "Ok" /\ r.status = "Err") => expression_type = r
               /\ (l.status = "Ok" /\ r.status = "Ok" /\ l.type /= r.type)
                    => expression_type = TypeErr("TypeMismatch", l.type, r.type)
               /\ (l.status = "Ok" /\ r.status = "Ok" /\ l.type = r.type)
                    => /\ expression_type = TypeOk(l.type)
                       /\ expression_type.type
                            = StaticType(program, Len(program), LastStatement.expr)

\* `void f(){ return f() + 1; }`: Void and Int operands have been refused.
C8_Witness ==
    /\ apc = "done"
    /\ program = <<Function("Void", "f",
                    <<Return(Some(Binary(FunctionCall("f"), "Plus", IntLit(1))))>>)>>
    /\ expression_type = TypeErr("TypeMismatch", "Void", "Int")
    /\ aresult = AnalyzeErr("TypeMismatch", "Void", "Int")

\* C9: every enter_scope is matched by one exit_scope before analyze
\* returns, on success and on every early failure path: whenever analyze
\* has returned, the symbol table holds exactly the one global scope.
C9_ScopesPaired == (apc = "done") => Len(stack) = 1

(***************************************************************************)
(* CodeGenerator (codegen.rs:7-62). A written line is the format string of *)
(* its writeln!, the mnemonic it starts with, and the name or number put   *)
(* in for {}. Writes to the writer are taken to succeed.                   *)
(***************************************************************************)
Line(instr, text, name, n) ==
    [instr |-> instr, text |-> text, name |-> name, n |-> n]

Globl(name) == Line(".globl", ".globl _{}", name, 0)
Label(name) == Line("label", "_{}:", name, 0)
Ret == Line("ret", "    ret", "", 0)
MovImmediate(n) == Line("mov", "    mov w0, {}", "", n)
CallLines(name) ==
    <<Line("stp", "    stp x29, x30, [sp, -16]!", "", 0),
      Line("mov", "    mov x29, sp", "", 0),
      Line("bl", "    bl _{}", name, 0),
      Line("ldp", "    ldp x29, x30, [sp], 16", "", 0)>>

\* CodeGenerator::generate_expression (codegen.rs:44-61): the lines written,
\* and whether the `_ => todo!()` arm was reached, which panics before
\* anything is written for the expression.
generate_expression(expression) ==
    IF expression.tag = "IntLit"
    THEN [panicked |-> FALSE, lines |-> <<MovImmediate(expression.n)>>]
    ELSE IF expression.tag = "FunctionCall"
    THEN [panicked |-> FALSE, lines |-> CallLines(expression.name)]
    ELSE [panicked |-> TRUE, lines |-> <<>>]

\* generate_statement without the final `ret`.
generate_statement_no_ret(statement) ==
    IF statement.expr = None
    THEN [panicked |-> FALSE, lines |-> <<>>]
    ELSE generate_expression(statement.expr[1])

\* CodeGenerator::generate_statement (codegen.rs:32-42)
generate_statement(statement) ==
    IF statement.expr = None
    THEN [panicked |-> FALSE, lines |-> <<Ret>>]
    ELSE LET r == generate_expression(statement.expr[1])
         IN  IF r.panicked THEN r
             ELSE [panicked |-> FALSE, lines |-> r.lines \o <<Ret>>]

\* Largest Program handed to the CodeGenerator.
MaxCodegenSize == 7

\* What the CodeGenerator's Programs are built from.
CodegenLiterals == {1, 42}
CodegenStatements(n) ==
    Statements(n, CodegenLiterals, FunctionNames, Operators)

\* generate's loop reaches the next function; generate_function writes the
\* directive and the label (codegen.rs:17-18, 24-25).
GenerateFunction ==
    /\ gpc = "function"
    /\ ProgramSize(program) < MaxCodegenSize
    /\ \E ty \in Types, name \in FunctionNames :
        /\ program' = Append(program, Function(ty, name, <<>>))
        /\ writer' = writer \o <<Globl(name), Label(name)>>
    /\ gpc' = "body"
    /\ UNCHANGED gresult

\* One iteration of generate_function's loop (codegen.rs:26-28).
GenerateStatement ==
    /\ gpc = "body"
    /\ \E statement \in CodegenStatements(MaxCodegenSize - ProgramSize(program)) :
        LET r == generate_statement(statement)
        IN  /\ program' = WithStatement(program, statement)
            /\ writer' = writer \o r.lines
            /\ IF r.panicked
               THEN gpc' = "panicked" /\ gresult' = "Panic"
               ELSE UNCHANGED <<gpc, gresult>>

\* The body is exhausted (codegen.rs:29).
FinishFunction ==
    /\ gpc = "body"
    /\ gpc' = "function"
    /\ UNCHANGED <<program, writer, gresult>>

\* The functions are exhausted (codegen.rs:20).
GenerateReturn ==
    /\ gpc = "function"
    /\ gpc' = "done"
    /\ gresult' = "Ok"
    /\ UNCHANGED <<program, writer>>

\* CodeGenerator::new (codegen.rs:12-14) on an empty writer, and the entry
\* of generate.
InitCodegen ==
    /\ program = <<>>
    /\ writer = <<>>
    /\ gpc = "function"
    /\ gresult = "Pending"
    /\ ParserIdle
    /\ AnalyzerIdle
    /\ MainIdle

NextCodegen ==
    \/ GenerateFunction /\ UNCHANGED <<parserVars, analyzerVars, mainVars>>
    \/ GenerateStatement /\ UNCHANGED <<parserVars, analyzerVars, mainVars>>
    \/ FinishFunction /\ UNCHANGED <<parserVars, analyzerVars, mainVars>>
    \/ GenerateReturn /\ UNCHANGED <<parserVars, analyzerVars, mainVars>>

SpecCodegen == InitCodegen /\ [][NextCodegen]_vars

\* The mnemonics of the lines the claimed lowering of an expression writes:
\* right operand, move to the secondary register, left operand, then the
\* instruction of the operator.
Mnemonic(op) ==
    CASE op = "Plus" -> "add"
      [] op = "Minus" -> "sub"
      [] op = "Star" -> "mul"
      [] op = "Slash" -> "div"

RECURSIVE ClaimedMnemonics(_)
ClaimedMnemonics(e) ==
    IF e.tag = "IntLit" THEN <<"mov">>
    ELSE IF e.tag = "FunctionCall" THEN <<"stp", "mov", "bl", "ldp">>
    ELSE ClaimedMnemonics(e.right) \o <<"mov">>
            \o ClaimedMnemonics(e.left) \o <<Mnemonic(e.op)>>

\* The mnemonics of the last n lines written.
LastMnemonics(n) ==
    [k \in 1..n |-> writer[Len(writer) - n + k].instr]

\* C10: for a binary expression generate_expression writes the code of the
\* right operand, a move into the secondary register, the code of the left
\* operand and one combining instruction chosen by the operator (add, sub,
\* mul, div), and returns normally.
C10_BinaryLowering ==
    (gpc /= "idle" /\ HasStatement
     /\ LastStatement.expr /= None
     /\ LastStatement.expr[1].tag = "Binary")
        => LET claimed == ClaimedMnemonics(LastStatement.expr[1]) \o <<"ret">>
           IN  /\ gpc /= "panicked"
               /\ Len(writer) >= Len(claimed)
               /\ LastMnemonics(Len(claimed)) = claimed

\* The text the claimed layout gives a Program: per function, in Program
\* order, the directive, the label, the lowering of each statement in body
\* order, and a blank line closing the block.
BlankLine == Line("", "", "", 0)

RECURSIVE ClaimedBody(_)
ClaimedBody(body) ==
    IF body = <<>> THEN <<>>
    ELSE generate_statement(Head(body)).lines \o ClaimedBody(Tail(body))

ClaimedBlock(function) ==
    <<Globl(function.name), Label(function.name)>>
        \o ClaimedBody(function.body) \o <<BlankLine>>

RECURSIVE ClaimedOutput(_)
ClaimedOutput(prog) ==
    IF prog = <<>> THEN <<>>
    ELSE ClaimedBlock(Head(prog)) \o ClaimedOutput(Tail(prog))

\* C11: generate emits one block per function in Program order, and each
\* block is the `.globl _<name>` directive, the `_<name>:` label, the
\* lowering of each body statement in body order, and then a blank
\* separator line that ends the block.
C11_BlockPerFunction ==
    (gpc = "done") => writer = ClaimedOutput(program)

\* C12: for a Program of one function whose body is a single return of an
\* integer literal n, the text generate writes is exactly the four lines
\* `.globl _<name>`, `_<name>:`, `    mov w0, <n>`, `    ret`, in that
\* order and with nothing else.
C12_SingleReturnLiteral ==
    (/\ gpc = "done"
     /\ Len(program) = 1
     /\ Len(program[1].body) = 1
     /\ program[1].body[1].expr /= None
     /\ program[1].body[1].expr[1].tag = "IntLit")
        => writer = <<Line(".globl", ".globl _{}", program[1].name, 0),
                      Line("label", "_{}:", program[1].name, 0),
                      Line("mov", "    mov w0, {}", "",
                           program[1].body[1].expr[1].n),
                      Line("ret", "    ret", "", 0)>>

\* generate has returned for `int f(){ return 42; }`.
C12_Witness ==
    /\ gpc = "done"
    /\ gresult = "Ok"
    /\ program = <<Function("Int", "f", <<Return(Some(IntLit(42)))>>)>>
    /\ Len(writer) = 4

(***************************************************************************)
(* The passes as main calls them: on the whole Program, in one call.       *)
(***************************************************************************)
\* The loop of analyze_function (analyzer.rs:33-35): the first error among
\* the statements, in body order, else Ok.
RECURSIVE analyze_body(_, _, _)
analyze_body(st, body, return_type) ==
    IF body = <<>> THEN AnalyzeOk
    ELSE LET r == analyze_statement(st, Head(body), return_type)
         IN  IF r.result.status = "Ok"
             THEN analyze_body(st, Tail(body), return_type)
             ELSE r.result

\* Analyzer::analyze_function (analyzer.rs:26-38): the symbol table it
\* leaves and its result; `?` returns before exit_scope.
analyze_function(st, function) ==
    LET entered == function_entry(st, function)
        r == analyze_body(entered, function.body, function.return_type)
    IN  IF r.status = "Ok"
        THEN [stack |-> exit_scope(entered), result |-> AnalyzeOk]
        ELSE [stack |-> entered, result |-> r]

\* Analyzer::analyze (analyzer.rs:19-24)
RECURSIVE analyze(_, _)
analyze(st, prog) ==
    IF prog = <<>> THEN [stack |-> st, result |-> AnalyzeOk]
    ELSE LET r == analyze_function(st, Head(prog))
         IN  IF r.result.status = "Ok"
             THEN analyze(r.stack, Tail(prog))
             ELSE r

\* The loop of generate_function (codegen.rs:26-28): the lines written,
\* and whether a statement panicked; nothing is written after a panic.
RECURSIVE generate_body(_)
generate_body(body) ==
    IF body = <<>> THEN [panicked |-> FALSE, lines |-> <<>>]
    ELSE LET r == generate_statement(Head(body))
         IN  IF r.panicked THEN r
             ELSE LET rest == generate_body(Tail(body))
                  IN  [panicked |-> rest.panicked,
                       lines |-> r.lines \o rest.lines]

\* generate_function closing every function with a `ret` of its own.
generate_function_with_ret(function) ==
    LET r == generate_body(function.body)
    IN  [panicked |-> r.panicked,
         lines |-> <<Globl(function.name), Label(function.name)>> \o r.lines
                     \o (IF r.panicked THEN <<>> ELSE <<Ret>>)]

\* CodeGenerator::generate_function (codegen.rs:23-30)
generate_function(function) ==
    LET r == generate_body(function.body)
    IN  [panicked |-> r.panicked,
         lines |-> <<Globl(function.name), Label(function.name)>> \o r.lines]

\* CodeGenerator::generate (codegen.rs:16-21)
RECURSIVE generate(_)
generate(prog) ==
    IF prog = <<>> THEN [panicked |-> FALSE, lines |-> <<>>]
    ELSE LET r == generate_function(Head(prog))
         IN  IF r.panicked THEN r
             ELSE LET rest == generate(Tail(prog))
                  IN  [panicked |-> rest.panicked,
                       lines |-> r.lines \o rest.lines]

(***************************************************************************)
(* main (main.rs:31-54) and Parser::parse (parser.rs:47-103). The lexer's  *)
(* output is read strictly left to right through the TokenStream, so each  *)
(* token of the source is drawn when next or peek first yields it; a       *)
(* peeked token stays in the Peekable's buffer until next takes it.        *)
(* File::create and the writes to the file are taken to succeed.           *)
(***************************************************************************)
\* Longest source, in tokens.
MaxSourceTokens == 12

SourceTokens ==
    IntLitTokens(tokens) \cup {Tok("Identifier", s) : s \in FunctionNames}
        \cup OperatorTokens \cup {LParen, RParen} \cup OtherTokens

\* What TokenStream::peek and TokenStream::next yield now (parser.rs:202-208).
Upcoming ==
    IF peeked /= None THEN {peeked[1]}
    ELSE IF Len(source) < MaxSourceTokens THEN SourceTokens \cup {EOF}
    ELSE {EOF}

\* TokenStream::next has yielded t.
Consume(t) ==
    /\ source' = (IF t = EOF THEN source ELSE Append(source, t))
    /\ peeked' = None

\* An Err leaves main through `?`.
MainFail(stage) ==
    /\ mpc' = "done"
    /\ mresult' = MainResult("Err", stage)

\* Lexer::lex returns the tokens (main.rs:36).
LexOk ==
    /\ mpc = "lex"
    /\ mpc' = "parse"
    /\ UNCHANGED <<source, peeked, functions, parsing, mresult>>

\* Lexer::lex returns an error (main.rs:36).
LexFail ==
    /\ mpc = "lex"
    /\ MainFail("lex")
    /\ UNCHANGED <<source, peeked, functions, parsing>>

\* The peek of parse's loop (parser.rs:49-55): at the end of the tokens
\* parse returns the Program.
ParsePeek ==
    /\ mpc = "parse"
    /\ \E t \in Upcoming :
        /\ peeked' = Some(t)
        /\ IF t = EOF
           THEN program' = functions /\ mpc' = "analyze"
           ELSE mpc' = "type" /\ UNCHANGED program
    /\ UNCHANGED <<source, functions, parsing, mresult>>

\* Parser::parse_type (parser.rs:59, 70-78)
ParseType ==
    /\ mpc = "type"
    /\ \E t \in Upcoming :
        /\ Consume(t)
        /\ IF t.kind = "Type"
           THEN /\ parsing' = [NoFunction EXCEPT !.return_type = t.val]
                /\ mpc' = "name"
                /\ UNCHANGED mresult
           ELSE MainFail("parse") /\ UNCHANGED parsing
    /\ UNCHANGED functions

\* TokenStream::expect_identifier (parser.rs:60, 218-226)
ExpectIdentifier ==
    /\ mpc = "name"
    /\ \E t \in Upcoming :
        /\ Consume(t)
        /\ IF t.kind = "Identifier"
           THEN /\ parsing' = [parsing EXCEPT !.name = t.val]
                /\ mpc' = "lparen"
                /\ UNCHANGED mresult
           ELSE MainFail("parse") /\ UNCHANGED parsing
    /\ UNCHANGED functions

\* TokenStream::expect (parser.rs:210-216) at position `at` of
\* parse_function, moving on to position `then`.
Expect(at, expected, then) ==
    /\ mpc = at
    /\ \E t \in Upcoming :
        /\ Consume(t)
        /\ IF t = expected
           THEN mpc' = then /\ UNCHANGED mresult
           ELSE MainFail("parse")

\* parser.rs:62-64
ExpectLParen ==
    Expect("lparen", LParen, "rparen") /\ UNCHANGED <<functions, parsing>>
ExpectRParen ==
    Expect("rparen", RParen, "lbrace") /\ UNCHANGED <<functions, parsing>>
ExpectLBrace ==
    Expect("lbrace", Tok("Separator", "LBrace"), "compound")
        /\ UNCHANGED <<functions, parsing>>

\* The peek of parse_compound_statement's loop (parser.rs:82-90).
CompoundPeek ==
    /\ mpc = "compound"
    /\ \E t \in Upcoming :
        /\ peeked' = Some(t)
        /\ IF t = Tok("Separator", "RBrace")
           THEN mpc' = "rbrace" /\ UNCHANGED mresult
           ELSE IF t = Tok("Keyword", "Return")
           THEN mpc' = "return" /\ UNCHANGED mresult
           ELSE MainFail("parse")
    /\ UNCHANGED <<source, functions, parsing>>

\* parse_return_statement's expect(Return) and the entry of
\* parse_expression (parser.rs:96-97, 106-108).
ExpectReturn ==
    /\ Expect("return", Tok("Keyword", "Return"), "expression")
    /\ tokens' = <<>>
    /\ operand_stack' = <<>>
    /\ operator_stack' = <<>>
    /\ ppc' = "scan"
    /\ presult' = NoResult
    /\ UNCHANGED <<functions, parsing>>

\* An iteration of parse_expression's loop that consumes tokens of the
\* source: Scan is one of ScanIntLit .. ScanOperator.
ScanSource(Scan) ==
    /\ mpc = "expression"
    /\ Len(source) < MaxSourceTokens
    /\ Scan
    /\ source' = source \o SubSeq(tokens', Len(tokens) + 1, Len(tokens'))
    /\ UNCHANGED <<peeked, functions, parsing, mpc, mresult>>

\* `_ => break` and `None => break` (parser.rs:163-165): the peeked token
\* stays in the buffer.
PeekBreak ==
    /\ mpc = "expression"
    /\ ppc = "scan"
    /\ \E t \in Upcoming \cap (OtherTokens \cup {EOF}) :
        peeked' = Some(t)
    /\ ppc' = "drain"
    /\ UNCHANGED <<tokens, operand_stack, operator_stack, presult>>
    /\ UNCHANGED <<source, functions, parsing, mpc, mresult>>

\* parse_expression has returned: `?`, then expect(Semi) and the push of
\* the statement (parser.rs:97-102, 83).
ExpectSemi ==
    /\ mpc = "expression"
    /\ ppc = "done"
    /\ IF presult.status = "Err"
       THEN MainFail("parse") /\ UNCHANGED <<source, peeked, parsing>>
       ELSE \E t \in Upcoming :
               /\ Consume(t)
               /\ IF t = Semi
                  THEN /\ parsing' = [parsing EXCEPT
                                        !.body = Append(@, Return(presult.expr))]
                       /\ mpc' = "compound"
                       /\ UNCHANGED mresult
                  ELSE MainFail("parse") /\ UNCHANGED parsing
    /\ UNCHANGED functions

\* expect(RBrace) and the push of the Function (parser.rs:66-67, 51).
ExpectRBrace ==
    /\ Expect("rbrace", Tok("Separator", "RBrace"), "parse")
    /\ functions' = Append(functions,
                           Function(parsing.return_type, parsing.name, parsing.body))
    /\ parsing' = NoFunction

\* Analyzer::new().analyze(&ast)? (main.rs:39)
Analyze ==
    /\ mpc = "analyze"
    /\ LET r == analyze(NewSymbolTable, program)
       IN  /\ stack' = r.stack
           /\ aresult' = r.result
           /\ apc' = "done"
           /\ IF r.result.status = "Ok"
              THEN mpc' = "create" /\ UNCHANGED mresult
              ELSE MainFail("analyze")
    /\ UNCHANGED <<source, peeked, functions, parsing>>

\* File::create(&output_path)? (main.rs:41-42): the file exists and is empty.
CreateFile ==
    /\ mpc = "create"
    /\ writer' = <<>>
    /\ mpc' = "generate"
    /\ UNCHANGED <<gpc, gresult>>
    /\ UNCHANGED <<source, peeked, functions, parsing, mresult>>

\* CodeGenerator::new(&mut output_file).generate(&ast)? (main.rs:43); each
\* writeln! goes to the file at once, so a panic leaves what was written.
Generate ==
    /\ mpc = "generate"
    /\ LET r == generate(program)
       IN  /\ writer' = writer \o r.lines
           /\ gpc' = (IF r.panicked THEN "panicked" ELSE "done")
           /\ gresult' = (IF r.panicked THEN "Panic" ELSE "Ok")
           /\ mresult' = (IF r.panicked THEN MainResult("Panic", "generate")
                          ELSE MainResult("Ok", ""))
    /\ mpc' = "done"
    /\ UNCHANGED <<source, peeked, functions, parsing>>

Init ==
    /\ ParserIdle
    /\ program = <<>>
    /\ AnalyzerIdle
    /\ CodegenIdle
    /\ source = <<>>
    /\ peeked = None
    /\ functions = <<>>
    /\ parsing = NoFunction
    /\ mpc = "lex"
    /\ mresult = MainResult("Pending", "")

Next ==
    \/ LexOk /\ UNCHANGED <<parserVars, program, analyzerVars, codegenVars>>
    \/ LexFail /\ UNCHANGED <<parserVars, program, analyzerVars, codegenVars>>
    \/ ParsePeek /\ UNCHANGED <<parserVars, analyzerVars, codegenVars>>
    \/ ParseType /\ UNCHANGED <<parserVars, program, analyzerVars, codegenVars>>
    \/ ExpectIdentifier
         /\ UNCHANGED <<parserVars, program, analyzerVars, codegenVars>>
    \/ ExpectLParen /\ UNCHANGED <<parserVars, program, analyzerVars, codegenVars>>
    \/ ExpectRParen /\ UNCHANGED <<parserVars, program, analyzerVars, codegenVars>>
    \/ ExpectLBrace /\ UNCHANGED <<parserVars, program, analyzerVars, codegenVars>>
    \/ CompoundPeek /\ UNCHANGED <<parserVars, program, analyzerVars, codegenVars>>
    \/ ExpectReturn /\ UNCHANGED <<program, analyzerVars, codegenVars>>
    \/ ScanSource(ScanIntLit) /\ UNCHANGED <<program, analyzerVars, codegenVars>>
    \/ ScanSource(ScanIdentifier) /\ UNCHANGED <<program, analyzerVars, codegenVars>>
    \/ ScanSource(ScanLParen) /\ UNCHANGED <<program, analyzerVars, codegenVars>>
    \/ ScanSource(ScanRParen) /\ UNCHANGED <<program, analyzerVars, codegenVars>>
    \/ ScanSource(ScanOperator) /\ UNCHANGED <<program, analyzerVars, codegenVars>>
    \/ PeekBreak /\ UNCHANGED <<program, analyzerVars, codegenVars>>
    \/ mpc = "expression" /\ DrainOperators
         /\ UNCHANGED <<program, analyzerVars, codegenVars, mainVars>>
    \/ mpc = "expression" /\ ReturnExpression
         /\ UNCHANGED <<program, analyzerVars, codegenVars, mainVars>>
    \/ ExpectSemi /\ UNCHANGED <<parserVars, program, analyzerVars, codegenVars>>
    \/ ExpectRBrace /\ UNCHANGED <<parserVars, program, analyzerVars, codegenVars>>
    \/ Analyze
         /\ UNCHANGED <<parserVars, program, expression_type, unvisited,
                        last_call, codegenVars>>
    \/ CreateFile /\ UNCHANGED <<parserVars, program, analyzerVars>>
    \/ Generate /\ UNCHANGED <<parserVars, program, analyzerVars>>

Spec == Init /\ [][Next]_vars

\* C13: no partial assembly is ever written on failure: in every run of
\* the lex, parse, analyze, generate pipeline that ends in a failure of any
\* stage, code generation meeting an unsupported expression included, no
\* assembly text has been written to the output file.
C13_NoPartialOutput ==
    (mpc = "done" /\ mresult.status /= "Ok") => writer = <<>>

(***************************************************************************)
(* The SymbolTable (analyzer.rs:76-108) under arbitrary calls of its       *)
(* methods, each recorded in last_call.                                    *)
(***************************************************************************)
\* Deepest scope stack the calls build.
MaxScopes == 3

\* The symbols inserted: functions of either return type, and an int
\* variable.
SymbolInfos ==
    {SymbolInfo("Function", t) : t \in Types} \cup {SymbolInfo("Variable", "Int")}

EnterScope ==
    /\ Len(stack) < MaxScopes
    /\ stack' = enter_scope(stack)
    /\ last_call' = Call("enter_scope", "", NoInfo, None)

ExitScope ==
    /\ stack' = exit_scope(stack)
    /\ last_call' = Call("exit_scope", "", NoInfo, None)

Insert ==
    \E name \in FunctionNames, info \in SymbolInfos :
        /\ stack' = insert(stack, name, info)
        /\ last_call' = Call("insert", name, info, None)

Get ==
    \E name \in FunctionNames :
        /\ last_call' = Call("get", name, NoInfo, get(stack, name))
        /\ UNCHANGED stack

\* SymbolTable::new
InitSymbolTable ==
    /\ stack = NewSymbolTable
    /\ last_call = NoCall
    /\ apc = "idle"
    /\ expression_type = NoType
    /\ aresult = AnalyzePending
    /\ unvisited = <<>>
    /\ program = <<>>
    /\ ParserIdle
    /\ CodegenIdle
    /\ MainIdle

NextSymbolTable ==
    \/ EnterScope
         /\ UNCHANGED <<apc, expression_type, aresult, unvisited, program,
                        parserVars, codegenVars, mainVars>>
    \/ ExitScope
         /\ UNCHANGED <<apc, expression_type, aresult, unvisited, program,
                        parserVars, codegenVars, mainVars>>
    \/ Insert
         /\ UNCHANGED <<apc, expression_type, aresult, unvisited, program,
                        parserVars, codegenVars, mainVars>>
    \/ Get
         /\ UNCHANGED <<apc, expression_type, aresult, unvisited, program,
                        parserVars, codegenVars, mainVars>>

SpecSymbolTable == InitSymbolTable /\ [][NextSymbolTable]_vars

\* What a call that leaves or finds at least one scope on the stack has
\* done: insert changed nothing but the entry of its name in the innermost
\* scope; get returned the entry of the innermost scope holding the name.
C14_Step ==
    /\ (last_call'.op = "insert" /\ stack' /= <<>>)
        => /\ Len(stack') = Len(stack)
           /\ \A k \in 1..(Len(stack) - 1) : stack'[k] = stack[k]
           /\ DOMAIN Top(stack') = DOMAIN Top(stack) \cup {last_call'.name}
           /\ Top(stack')[last_call'.name] = last_call'.info
           /\ \A n \in DOMAIN Top(stack) \ {last_call'.name} :
                Top(stack')[n] = Top(stack)[n]
    /\ (last_call'.op = "get" /\ stack /= <<>>)
        => LET S == ScopesWith(stack, last_call'.name)
           IN  last_call'.result =
                 IF S = {} THEN None
                 ELSE Some(stack[Latest(S)][last_call'.name])

\* C14: after any sequence of enter_scope, exit_scope and insert calls that
\* leaves at least one scope on the stack, insert(name, s) has written only
\* into the innermost scope (replacing an earlier entry of that name there
\* and leaving every outer scope unchanged), and get(name) returns the entry
\* of the innermost scope that contains name, or reports not-found when no
\* scope contains it.
C14_InnermostScope == [][C14_Step]_vars

\* get has just returned the entry of an inner scope that shadows a
\* different entry of the same name in the global scope.
C14_Witness ==
    /\ last_call.op = "get"
    /\ Len(stack) >= 2
    /\ last_call.name \in DOMAIN stack[1]
    /\ last_call.name \in DOMAIN Top(stack)
    /\ stack[1][last_call.name] /= Top(stack)[last_call.name]
    /\ last_call.result = Some(Top(stack)[last_call.name])

DeclaredSoFar == {program[j].name : j \in 1..Len(program)}

\* C16: function symbols are visible in declaration order only: a call
\* inside function number i to a function first defined at a later position
\* of the same Program makes analyze fail with the undefined-function
\* error, even though that function is defined in the program; a call
\* resolves exactly when the callee's name is that of the enclosing
\* function or of a function declared earlier.
C16_DeclarationOrder ==
    /\ (JustAnalyzed
        /\ LastStatement.expr /= None
        /\ LastStatement.expr[1].tag = "FunctionCall")
            => LET c == LastStatement.expr[1].name
               IN  IF c \in DeclaredSoFar
                   THEN /\ expression_type.status = "Ok"
                        /\ aresult.kind /= "UndefinedSymbol"
                   ELSE /\ apc = "done"
                        /\ aresult = AnalyzeErr("UndefinedSymbol", c, "")
    /\ (JustAnalyzed /\ LastStatement.expr /= None)
            => LET callees == Callees(LastStatement.expr[1])
               IN  /\ (aresult.kind = "UndefinedSymbol")
                        => aresult.a \in callees \ DeclaredSoFar
                   /\ (callees \subseteq DeclaredSoFar)
                        => aresult.kind /= "UndefinedSymbol"
                   /\ (callees \ DeclaredSoFar /= {})
                        => apc = "done" /\ aresult.status = "Err"
    /\ \A k \in 1..Len(unvisited) :
            (/\ HasStatement
             /\ LastStatement = Return(Some(FunctionCall(unvisited[k].name)))
             /\ unvisited[k].name \notin DeclaredSoFar)
                => aresult = AnalyzeErr("UndefinedSymbol", unvisited[k].name, "")

\* `int f(){ return g(); } int g(){ ... }`: the call of g has been
\* rejected although g is defined right after f.
C16_Witness ==
    /\ apc = "done"
    /\ program = <<Function("Int", "f", <<Return(Some(FunctionCall("g")))>>)>>
    /\ unvisited = <<Function("Int", "g", <<>>)>>
    /\ aresult = AnalyzeErr("UndefinedSymbol", "g", "")

\* The tokens of a function definition with an empty body,
\* `<type> <name> ( ) { }`, and whether a source consists of such
\* definitions only.
EmptyFunctionTokens(ty, name) ==
    <<Tok("Type", ty), Tok("Identifier", name), LParen, RParen,
      Tok("Separator", "LBrace"), Tok("Separator", "RBrace")>>
TokensPerEmptyFunction == Len(EmptyFunctionTokens("Int", "f"))
EmptyFunctionAt(src, k) ==
    LET at == TokensPerEmptyFunction * (k - 1)
    IN  \E ty \in Types, name \in FunctionNames :
            SubSeq(src, at + 1, at + TokensPerEmptyFunction)
                = EmptyFunctionTokens(ty, name)
OnlyEmptyFunctions(src) ==
    /\ src /= <<>>
    /\ Len(src) % TokensPerEmptyFunction = 0
    /\ \A k \in 1..(Len(src) \div TokensPerEmptyFunction) : EmptyFunctionAt(src, k)

\* C17: a function whose body contains no return statement is accepted by
\* the whole pipeline whatever its declared return type: the parser returns
\* it with an empty body, analyze succeeds for it (int as well as void), and
\* the CodeGenerator emits for it only the `.globl` directive and the
\* label, with no `ret`.
C17_EmptyBodyAccepted ==
    (mpc \in {"analyze", "create", "generate", "done"}
     /\ OnlyEmptyFunctions(source))
        => LET n == Len(source) \div TokensPerEmptyFunction
           IN  /\ Len(program) = n
               /\ \A k \in 1..n :
                    /\ program[k].return_type
                         = source[TokensPerEmptyFunction * (k - 1) + 1].val
                    /\ program[k].name
                         = source[TokensPerEmptyFunction * (k - 1) + 2].val
                    /\ program[k].body = <<>>
               /\ (mpc /= "analyze") => aresult = AnalyzeOk
               /\ (mpc = "done")
                    => /\ mresult = MainResult("Ok", "")
                       /\ Len(writer) = 2 * n
                       /\ \A k \in 1..n :
                            /\ writer[2 * k - 1]
                                 = Line(".globl", ".globl _{}", program[k].name, 0)
                            /\ writer[2 * k]
                                 = Line("label", "_{}:", program[k].name, 0)
                       /\ \A l \in 1..Len(writer) : writer[l].instr /= "ret"

\* main has ended for the source `int f(){} void g(){}`.
C17_Witness ==
    /\ mpc = "done"
    /\ mresult.status = "Ok"
    /\ program = <<Function("Int", "f", <<>>), Function("Void", "g", <<>>)>>
    /\ Len(source) = 2 * TokensPerEmptyFunction
    /\ Len(writer) = 4

====
